---- MODULE Spec2Model ----
(***************************************************************************)
(* Question-paper assembly of Mini_Integrate: the exam setup pages          *)
(* (CieExamSetup.tsx, SemesterExamSetup), the client generation page        *)
(* (GenerateQuestions.tsx) and the server route POST /api/questions/generate *)
(* (server/routes/questions.js).                                            *)
(*                                                                          *)
(* A JavaScript string is a sequence of one-character strings, so that      *)
(* toLowerCase, includes, startsWith, endsWith and parseInt are computed    *)
(* as the engine computes them.  A template literal of the fallback         *)
(* generator is one opaque piece followed by the characters of the topic.   *)
(***************************************************************************)
EXTENDS Integers, Sequences, FiniteSets, TLC

\* ------------------------------------------------------------------ bounds
\* largest number of candidate questions in the processed pool
MaxPool == 2

\* largest number of edits the educator makes on a setup page before leaving
MaxEdits == 1

\* uploads of question bank and syllabus for the one course
MaxUploads == 2
\* ------------------------------------------------------- JavaScript strings
UpperLetters == <<"A","B","C","D","E","F","G","H","I","J","K","L","M",
                  "N","O","P","Q","R","S","T","U","V","W","X","Y","Z">>

LowerLetters == <<"a","b","c","d","e","f","g","h","i","j","k","l","m",
                  "n","o","p","q","r","s","t","u","v","w","x","y","z">>

Digits == <<"0","1","2","3","4","5","6","7","8","9">>

\* the lower-case and upper-case forms of the letters
ToLowerTable == [c \in {UpperLetters[i] : i \in 1..Len(UpperLetters)} |->
                   LowerLetters[CHOOSE i \in 1..Len(UpperLetters) : UpperLetters[i] = c]]

ToUpperTable == [c \in {LowerLetters[i] : i \in 1..Len(LowerLetters)} |->
                   UpperLetters[CHOOSE i \in 1..Len(LowerLetters) : LowerLetters[i] = c]]

LowerChar(c) == IF c \in DOMAIN ToLowerTable THEN ToLowerTable[c] ELSE c

UpperChar(c) == IF c \in DOMAIN ToUpperTable THEN ToUpperTable[c] ELSE c

\* String.prototype.toLowerCase
toLowerCase(s) == [i \in 1..Len(s) |-> LowerChar(s[i])]

\* String.prototype.toUpperCase
toUpperCase(s) == [i \in 1..Len(s) |-> UpperChar(s[i])]

\* String.prototype.includes: sub occurs in s as a contiguous substring
includes(s, sub) ==
    \E k \in 0..Len(s) :
        /\ k + Len(sub) <= Len(s)
        /\ \A j \in 1..Len(sub) : s[k + j] = sub[j]

\* String.prototype.startsWith
startsWith(s, p) ==
    /\ Len(p) <= Len(s)
    /\ \A j \in 1..Len(p) : s[j] = p[j]

\* String.prototype.endsWith
endsWith(s, p) ==
    /\ Len(p) <= Len(s)
    /\ \A j \in 1..Len(p) : s[Len(s) - Len(p) + j] = p[j]

DigitTable == [c \in {Digits[i] : i \in 1..Len(Digits)} |->
                 (CHOOSE i \in 1..Len(Digits) : Digits[i] = c) - 1]

IsDigit(c) == c \in DOMAIN DigitTable

DigitValue(c) == DigitTable[c]

\* the value JavaScript's NaN takes in the model: it equals no question number
NaN == -1

\* number of leading decimal digits of s
DigitPrefixLen(s) ==
    CHOOSE n \in 0..Len(s) :
        /\ \A j \in 1..n : IsDigit(s[j])
        /\ n = Len(s) \/ ~IsDigit(s[n + 1])

RECURSIVE DecimalValue(_, _)
DecimalValue(s, n) ==
    IF n = 0 THEN 0 ELSE 10 * DecimalValue(s, n - 1) + DigitValue(s[n])

\* parseInt(s): the decimal value of the leading digits, NaN when there are none
\* (the question ids of the model carry no sign and no leading white space)
parseInt(s) ==
    IF s = <<>> \/ ~IsDigit(s[1]) THEN NaN ELSE DecimalValue(s, DigitPrefixLen(s))

\* Number.prototype.toString of a number 0 .. 99
toString(n) ==
    IF n < 10 THEN <<Digits[n + 1]>> ELSE <<Digits[(n \div 10) + 1], Digits[(n % 10) + 1]>>

\* a string is truthy iff it is not empty
Truthy(s) == s # <<>>

Abs(x) == IF x < 0 THEN -x ELSE x


\* ------------------------------------------------------------ domain values
easy == <<"e","a","s","y">>

medium == <<"m","e","d","i","u","m">>

hard == <<"h","a","r","d">>

\* topic names offered by the TopicSelector (topics of the processed syllabus)
TopicPaging == <<"P","a","g","i","n","g">>

TopicFiles == <<"F","i","l","e","s">>

EmptyString == <<>>

Parts == <<"a", "b", "c">>

\* the co field of a CIE configuration, which the CIE page never sets
NoCo == 0

\* `${section}${part}` / `${questionNum}${part}`
QuestionId(num, part) == toString(num) \o <<part>>

VARIABLES
    examType,           \* examConfig.examType chosen on ExamTypeSelection
    questionConfigs,    \* useState<QuestionConfig[]> of the setup page
    edits,              \* number of edits made on the setup page
    toast,              \* the last toast shown by handleSubmit
    route,              \* the page the router shows
    examData,           \* location.state handed to /generate-questions
    storedQuestions,    \* questions of the course's COMPLETED ProcessedData
    processedQuestions, \* useState<ProcessedQuestion[]> of the generation page
    request,            \* the inputs of the generation run
    generatedQuestions, \* the questions the generation run returned
    dataSource,         \* who ran it and the `source` the server reported
    questionPaperText,  \* useState<string> of the generation page, as lines
    processedData,      \* the ProcessedData collection of one (educator, course)
    uploads,            \* the upload requests in flight, each at its await point
    response            \* status of the answer to GET /upload/processed-data

vars == <<examType, questionConfigs, edits, toast, route, examData,
          storedQuestions, processedQuestions, request, generatedQuestions, dataSource,
          questionPaperText, processedData, uploads, response>>

setupVars == <<examType, questionConfigs, edits, toast, route, examData>>

storeVars == <<processedData, uploads, response>>

generationVars ==
    <<storedQuestions, processedQuestions, request, generatedQuestions, dataSource,
      questionPaperText, storeVars>>

\* ----------------------------------------------------------- setup pages
\* CieExamSetup.initializeQuestionConfigs: 1a .. 3c, 5 marks each, c optional
CieInitialConfigs ==
    [i \in 1..9 |->
        LET section == ((i - 1) \div 3) + 1
            part    == Parts[((i - 1) % 3) + 1]
        IN  [questionId |-> QuestionId(section, part),
             level      |-> IF part = "c" THEN hard ELSE medium,
             marks      |-> 5,
             includeC   |-> part # "c",
             topic      |-> EmptyString,
             co         |-> NoCo]]

\* SemesterExamSetup.initializeQuestionConfigs: 1a .. 10c, marks 5/7/8
SeeInitialConfigs ==
    [i \in 1..30 |->
        LET questionNum == ((i - 1) \div 3) + 1
            part        == Parts[((i - 1) % 3) + 1]
        IN  [questionId |-> QuestionId(questionNum, part),
             level      |-> IF part = "c" THEN hard ELSE medium,
             marks      |-> IF part = "a" THEN 5 ELSE IF part = "b" THEN 7 ELSE 8,
             includeC   |-> part # "c",
             topic      |-> EmptyString,
             co         |-> (questionNum + 1) \div 2]]

initializeQuestionConfigs(type) ==
    IF type = "CIE" THEN CieInitialConfigs ELSE SeeInitialConfigs

\* prevConfigs.map(config => config.questionId === questionId ? {...config, level} : config)
SetLevel(configs, questionId, level) ==
    [i \in 1..Len(configs) |->
        IF configs[i].questionId = questionId
        THEN [configs[i] EXCEPT !.level = level] ELSE configs[i]]

SetMarks(configs, questionId, marks) ==
    [i \in 1..Len(configs) |->
        IF configs[i].questionId = questionId
        THEN [configs[i] EXCEPT !.marks = marks] ELSE configs[i]]

SetIncludeC(configs, questionId, includeC) ==
    IF endsWith(questionId, <<"c">>)
    THEN [i \in 1..Len(configs) |->
            IF configs[i].questionId = questionId
            THEN [configs[i] EXCEPT !.includeC = includeC] ELSE configs[i]]
    ELSE configs

SetTopic(configs, questionId, topic) ==
    [i \in 1..Len(configs) |->
        IF configs[i].questionId = questionId
        THEN [configs[i] EXCEPT !.topic = topic] ELSE configs[i]]

\* a reduce that forgets the includeC test and adds every part's marks
RECURSIVE ReduceMarksOfEveryPart(_)
ReduceMarksOfEveryPart(qs) ==
    IF qs = <<>> THEN 0
    ELSE qs[Len(qs)].marks + ReduceMarksOfEveryPart(SubSeq(qs, 1, Len(qs) - 1))

\* the reduce of handleSubmit: marks of the questions that will be included
RECURSIVE ReduceMarks(_)
ReduceMarks(qs) ==
    IF qs = <<>> THEN 0
    ELSE LET q == qs[Len(qs)]
             sum == ReduceMarks(SubSeq(qs, 1, Len(qs) - 1))
         IN  IF endsWith(q.questionId, <<"c">>) /\ ~q.includeC THEN sum ELSE sum + q.marks

NoToast == [title |-> "", label |-> "", group |-> 0, co |-> NoCo, total |-> 0]

\* a marks toast that reports the total asked for, not the current total
MarksToastOfTarget(label, group, co, total) ==
    [title |-> "Invalid marks distribution", label |-> label,
     group |-> group, co |-> co, total |-> IF label = "Section" THEN 15 ELSE 20]

MarksToast(label, group, co, total) ==
    [title |-> "Invalid marks distribution", label |-> label,
     group |-> group, co |-> co, total |-> total]

TopicToast ==
    [title |-> "Missing topic selection", label |-> "", group |-> 0, co |-> NoCo, total |-> 0]

\* CIE handleSubmit, the loop over sections ["1","2","3"] from section on:
\* the toast of the first section whose included marks are not 15
RECURSIVE CieMarksCheck(_, _)
CieMarksCheck(configs, section) ==
    IF section > 3 THEN NoToast
    ELSE LET sectionQuestions ==
                 SelectSeq(configs, LAMBDA q : startsWith(q.questionId, toString(section)))
             sectionMarks == ReduceMarks(sectionQuestions)
         IN  IF sectionMarks # 15
             THEN MarksToast("Section", section, NoCo, sectionMarks)
             ELSE CieMarksCheck(configs, section + 1)

\* SEE handleSubmit, the loops over cos [1..5] and the two question sets from
\* (co, idx) on: the toast of the first set whose included marks are not 20
RECURSIVE SeeMarksCheck(_, _, _)
SeeMarksCheck(configs, co, idx) ==
    IF co > 5 THEN NoToast
    ELSE IF idx > 1 THEN SeeMarksCheck(configs, co + 1, 0)
    ELSE LET wanted == IF idx = 0 THEN (co * 2) - 1 ELSE co * 2
             questionSet ==
                 SelectSeq(configs, LAMBDA q : q.co = co /\ parseInt(q.questionId) = wanted)
             setMarks == ReduceMarks(questionSet)
         IN  IF setMarks # 20
             THEN MarksToast("Question", wanted, co, setMarks)
             ELSE SeeMarksCheck(configs, co, idx + 1)

\* a topic check over every question, excluded parts c as well
missingTopicsOfEveryPart(configs) ==
    \E i \in 1..Len(configs) : ~Truthy(configs[i].topic)

\* activeQuestions.some(q => !q.topic)
missingTopics(configs) ==
    LET activeQuestions ==
            SelectSeq(configs, LAMBDA q : ~endsWith(q.questionId, <<"c">>) \/ q.includeC)
    IN  \E i \in 1..Len(activeQuestions) : ~Truthy(activeQuestions[i].topic)

\* the toast handleSubmit shows, NoToast when it goes on to navigate
SubmitToast(type, configs) ==
    LET marksToast == IF type = "CIE" THEN CieMarksCheck(configs, 1)
                      ELSE SeeMarksCheck(configs, 1, 0)
    IN  IF marksToast # NoToast THEN marksToast
        ELSE IF missingTopics(configs) THEN TopicToast
        ELSE NoToast

NoState == [examType |-> "", questionConfigs |-> <<>>]

\* the inputs of a generation run: exam type, configs, and the pool it matched
NoRequest == [examType |-> "", questionConfigs |-> <<>>, questions |-> <<>>]

\* --------------------------------------------- configurations under edit
\* What the educator has entered for the three parts of one section or
\* question: the marks and topics of a, b, c and the Include-C checkbox.
Entry(ma, mb, mc, inc, ta, tb, tc) ==
    [marks |-> <<ma, mb, mc>>, includeC |-> inc, topics |-> <<ta, tb, tc>>]

\* entries that satisfy the page's checks: all three parts, or a and b only
CieFull == Entry(5, 5, 5, TRUE, TopicPaging, TopicFiles, TopicPaging)

CieShort == Entry(7, 8, 5, FALSE, TopicFiles, TopicPaging, EmptyString)

SeeFull == Entry(5, 7, 8, TRUE, TopicPaging, TopicFiles, TopicPaging)

SeeShort == Entry(12, 8, 8, FALSE, TopicFiles, TopicPaging, EmptyString)

CieGoodEntries == {CieFull, CieShort}

SeeGoodEntries == {SeeFull, SeeShort}

FullEntry(type) == IF type = "CIE" THEN CieFull ELSE SeeFull

ShortEntry(type) == IF type = "CIE" THEN CieShort ELSE SeeShort

\* entries that break a check: a wrong total, or an included part without topic
CieBadEntries ==
    { Entry(5, 6, 5, TRUE, TopicPaging, TopicFiles, TopicPaging),
      Entry(5, 5, 5, FALSE, TopicPaging, TopicFiles, EmptyString),
      Entry(5, 5, 5, TRUE, TopicPaging, EmptyString, TopicPaging),
      Entry(5, 5, 5, TRUE, TopicPaging, TopicFiles, EmptyString),
      Entry(7, 6, 8, TRUE, TopicPaging, TopicFiles, TopicPaging) }

SeeBadEntries ==
    { Entry(5, 8, 8, TRUE, TopicPaging, TopicFiles, TopicPaging),
      Entry(5, 7, 8, FALSE, TopicPaging, TopicFiles, EmptyString),
      Entry(5, 7, 8, TRUE, TopicPaging, EmptyString, TopicPaging),
      Entry(5, 7, 8, TRUE, TopicPaging, TopicFiles, EmptyString),
      Entry(12, 6, 8, TRUE, TopicPaging, TopicFiles, TopicPaging) }

GoodEntries(type) == IF type = "CIE" THEN CieGoodEntries ELSE SeeGoodEntries

BadEntries(type) == IF type = "CIE" THEN CieBadEntries ELSE SeeBadEntries

Groups(type) == IF type = "CIE" THEN 1..3 ELSE 1..10

\* the initial configurations with the entry of every group filled in
WithEntries(type, entryOf) ==
    LET initial == initializeQuestionConfigs(type)
    IN  [i \in 1..Len(initial) |->
            LET group == ((i - 1) \div 3) + 1
                k     == ((i - 1) % 3) + 1
                e     == entryOf[group]
            IN  [initial[i] EXCEPT
                    !.marks    = e.marks[k],
                    !.topic    = e.topics[k],
                    !.includeC = IF k = 3 THEN e.includeC ELSE @]]

\* the page after the educator filled it in: every group holds the same good
\* entry, except at most one group that holds any other entry
FilledConfigs(type) ==
    { WithEntries(type, [g \in Groups(type) |-> base]) : base \in GoodEntries(type) }
    \cup
    { WithEntries(type, [g \in Groups(type) |-> IF g = odd THEN other ELSE base]) :
        <<base, odd, other>> \in
            GoodEntries(type) \X Groups(type) \X (GoodEntries(type) \cup BadEntries(type)) }

\* values typed into the inputs of the page
MarksInputs == {0, 6}

TopicInputs == {TopicFiles}

LevelInputs == {easy}

\* the questions whose inputs the educator touches
EditedIds(type) ==
    IF type = "CIE"
    THEN {QuestionId(1, "b"), QuestionId(2, "c"), QuestionId(3, "a")}
    ELSE {QuestionId(1, "b"), QuestionId(2, "c"), QuestionId(10, "a")}

\* ------------------------------------------------------------ setup actions
SetupInit ==
    /\ examType \in {"CIE", "SEE"}
    /\ questionConfigs \in {initializeQuestionConfigs(examType)} \cup FilledConfigs(examType)
    /\ edits = 0
    /\ toast = NoToast
    /\ route = "setup"
    /\ examData = NoState
    /\ storedQuestions = <<>>
    /\ processedQuestions = <<>>
    /\ request = NoRequest
    /\ generatedQuestions = <<>>
    /\ dataSource = ""
    /\ questionPaperText = <<>>
    /\ processedData = <<>>
    /\ uploads = <<>>
    /\ response = ""

handleLevelChange ==
    /\ route = "setup"
    /\ edits < MaxEdits
    /\ \E questionId \in EditedIds(examType), level \in LevelInputs :
          questionConfigs' = SetLevel(questionConfigs, questionId, level)
    /\ edits' = edits + 1
    /\ UNCHANGED <<examType, toast, route, examData, generationVars>>

handleMarksChange ==
    /\ route = "setup"
    /\ edits < MaxEdits
    /\ \E questionId \in EditedIds(examType), marks \in MarksInputs :
          questionConfigs' = SetMarks(questionConfigs, questionId, marks)
    /\ edits' = edits + 1
    /\ UNCHANGED <<examType, toast, route, examData, generationVars>>

handleIncludeCChange ==
    /\ route = "setup"
    /\ edits < MaxEdits
    /\ \E questionId \in EditedIds(examType), includeC \in BOOLEAN :
          questionConfigs' = SetIncludeC(questionConfigs, questionId, includeC)
    /\ edits' = edits + 1
    /\ UNCHANGED <<examType, toast, route, examData, generationVars>>

handleTopicChange ==
    /\ route = "setup"
    /\ edits < MaxEdits
    /\ \E questionId \in EditedIds(examType), topic \in TopicInputs :
          questionConfigs' = SetTopic(questionConfigs, questionId, topic)
    /\ edits' = edits + 1
    /\ UNCHANGED <<examType, toast, route, examData, generationVars>>

\* handleSubmit: a toast and return, or navigate("/generate-questions", {state})
handleSubmit ==
    /\ route = "setup"
    /\ toast' = SubmitToast(examType, questionConfigs)
    /\ IF toast' = NoToast
       THEN /\ route' = "generate"
            /\ examData' = [examType |-> examType, questionConfigs |-> questionConfigs]
       ELSE UNCHANGED <<route, examData>>
    /\ UNCHANGED <<examType, questionConfigs, edits, generationVars>>

SetupNext ==
    \/ handleLevelChange
    \/ handleMarksChange
    \/ handleIncludeCChange
    \/ handleTopicChange
    \/ handleSubmit

Spec == SetupInit /\ [][SetupNext]_vars

\* ------------------------------------------------------ the question bank
Medium == <<"M","e","d","i","u","m">>

HARD == <<"H","A","R","D">>

DemandPaging == <<"D","e","m","a","n","d"," ","P","A","G","I","N","G">>

Unit(n) == <<"U","n","i","t"," ">> \o toString(n)

LowerUnit(n) == <<"u","n","i","t"," ">> \o toString(n)

\* one record of questionSchema; topic_similarity is held in hundredths
Candidate(id, marks, bloom, difficulty, topic, unit, similarity) ==
    [_id |-> id, question |-> <<"bank question ">> \o toString(id), predicted_marks |-> marks,
     bloom_level |-> bloom, difficulty |-> difficulty, matched_topic |-> topic,
     matched_unit |-> unit, topic_similarity |-> similarity]

\* the questions the external processing may have stored for the course
Bank ==
    { Candidate(1, 5, "L2", Medium, DemandPaging, Unit(1), 60),
      Candidate(2, 7, "L3", Medium, DemandPaging, Unit(1), 90),
      Candidate(3, 5, "L2", Medium, DemandPaging, Unit(1), 90),
      Candidate(4, 5, "L4", Medium, TopicFiles, Unit(1), 60),
      Candidate(5, 8, "L3", Medium, DemandPaging, LowerUnit(2), 60),
      Candidate(6, 6, "L6", HARD, DemandPaging, Unit(3), 90) }

\* the pools: up to MaxPool different bank questions in any order
RECURSIVE PoolsOfLength(_)
PoolsOfLength(n) ==
    IF n = 0 THEN {<<>>}
    ELSE { Append(p, q) : <<p, q>> \in
             { <<p, q>> \in PoolsOfLength(n - 1) \X Bank :
                 \A i \in 1..Len(p) : p[i]._id # q._id } }

Pools == UNION { PoolsOfLength(n) : n \in 0..MaxPool }

\* ----------------------------------------------------------- Math.random
\* Math.floor(Math.random() * n) for the k-th question of a run: the run's
\* random numbers are one of a few streams, a stream gives each output
\* position the index drawn among 12 topics and among 4 templates.
RandomStreams ==
    { [k \in 1..30 |-> [topic |-> (a * k + b) % 12, template |-> (a * k + b) % 4]] :
        <<a, b>> \in {<<0, 0>>, <<1, 2>>} }

\* --------------------------------------------------------------- matching
\* an insertion for the comparator with a and b swapped: ascending score
RECURSIVE InsertAscending(_, _)
InsertAscending(sorted, e) ==
    IF sorted = <<>> THEN <<e>>
    ELSE IF Head(sorted).score <= e.score
         THEN <<Head(sorted)>> \o InsertAscending(Tail(sorted), e)
         ELSE <<e>> \o sorted

\* Array.prototype.sort with comparator (a, b) => score(b) - score(a): a stable
\* sort by descending score of the entries [q, score]; Insert puts an entry
\* behind every entry that scores at least as much
RECURSIVE InsertByScore(_, _)
InsertByScore(sorted, e) ==
    IF sorted = <<>> THEN <<e>>
    ELSE IF Head(sorted).score >= e.score
         THEN <<Head(sorted)>> \o InsertByScore(Tail(sorted), e)
         ELSE <<e>> \o sorted

RECURSIVE SortByScore(_)
SortByScore(entries) ==
    IF entries = <<>> THEN <<>>
    ELSE InsertByScore(SortByScore(SubSeq(entries, 1, Len(entries) - 1)),
                       entries[Len(entries)])

sortDescending(qs, scores) ==
    LET sorted == SortByScore([i \in 1..Len(qs) |-> [q |-> qs[i], score |-> scores[i]]])
    IN  [i \in 1..Len(sorted) |-> sorted[i].q]

\* questions.js 81-99: the filter of the CIE branch of generateFromProcessedData
ServerCieFilter(q, config, section) ==
    LET difficultyMatch == Truthy(q.difficulty) /\
                           toLowerCase(q.difficulty) = toLowerCase(config.level)
        marksMatch == q.predicted_marks # 0 /\
                      Abs(q.predicted_marks - config.marks) <= 2
        unitMatch == Truthy(q.matched_unit) /\
                     includes(toLowerCase(q.matched_unit),
                              <<"u","n","i","t"," ">> \o toLowerCase(toString(section)))
        topicMatch == ~Truthy(config.topic) \/
                      (Truthy(q.matched_topic) /\
                       includes(toLowerCase(q.matched_topic), toLowerCase(config.topic)))
    IN  difficultyMatch /\ marksMatch /\ (unitMatch \/ topicMatch)

\* questions.js 102-118: the score the CIE comparator gives a question
ServerCieScore(q, config, section) ==
    (IF q.topic_similarity # 0 THEN q.topic_similarity ELSE 0)
    + (IF q.predicted_marks = config.marks THEN 50 ELSE 0)
    + (IF Truthy(q.matched_unit) /\ includes(q.matched_unit, Unit(section)) THEN 25 ELSE 0)

\* questions.js 157-166: the filter of the SEE branch
ServerSeeFilter(q, config) ==
    LET difficultyMatch == Truthy(q.difficulty) /\
                           toLowerCase(q.difficulty) = toLowerCase(config.level)
        marksMatch == q.predicted_marks # 0 /\
                      Abs(q.predicted_marks - config.marks) <= 3
        topicMatch == ~Truthy(config.topic) \/
                      (Truthy(q.matched_topic) /\
                       includes(toLowerCase(q.matched_topic), toLowerCase(config.topic)))
    IN  difficultyMatch /\ marksMatch /\ topicMatch

\* questions.js 169: (b.topic_similarity || 0) - (a.topic_similarity || 0)
ServerSeeScore(q, config) ==
    IF q.topic_similarity # 0 THEN q.topic_similarity ELSE 0

\* the ranked list of the server for one config; section = 0 in the SEE branch
ServerMatching(questions, type, config, section) ==
    LET matchingQuestions ==
            IF type = "CIE"
            THEN SelectSeq(questions, LAMBDA q : ServerCieFilter(q, config, section))
            ELSE SelectSeq(questions, LAMBDA q : ServerSeeFilter(q, config))
        scores ==
            [i \in 1..Len(matchingQuestions) |->
                IF type = "CIE"
                THEN ServerCieScore(matchingQuestions[i], config, section)
                ELSE ServerSeeScore(matchingQuestions[i], config)]
    IN  sortDescending(matchingQuestions, scores)

\* GenerateQuestions.tsx 224-240: the filter of findMatchingQuestions
\* (unitMatch is computed there and not used)
ClientFilter(q, config) ==
    LET difficultyMatch == toLowerCase(q.difficulty) = toLowerCase(config.level)
        marksMatch == Abs(q.predicted_marks - config.marks) <= 2
        topicMatch == ~Truthy(config.topic) \/
                      includes(toLowerCase(q.matched_topic), toLowerCase(config.topic))
    IN  difficultyMatch /\ marksMatch /\ topicMatch

\* GenerateQuestions.tsx 241-258: the score of the comparator; preferredUnit is
\* the empty string when findMatchingQuestions is called without it
ClientScore(q, config, preferredUnit) ==
    q.topic_similarity
    + (IF q.predicted_marks = config.marks THEN 50 ELSE 0)
    + (IF Truthy(preferredUnit) /\ includes(q.matched_unit, preferredUnit) THEN 25 ELSE 0)

findMatchingQuestions(questions, config, preferredUnit) ==
    LET matching == SelectSeq(questions, LAMBDA q : ClientFilter(q, config))
        scores == [i \in 1..Len(matching) |-> ClientScore(matching[i], config, preferredUnit)]
    IN  sortDescending(matching, scores)

\* --------------------------------------------------------------- fallback
\* the value of an originalId / similarity that a question does not carry
NoId == 0

NoSimilarity == -1

\* questions.js 243-247
ServerTopics ==
    << <<"process management">>, <<"memory management">>, <<"file systems">>,
       <<"I/O systems">>, <<"CPU scheduling">>, <<"deadlock handling">>,
       <<"virtual memory">>, <<"disk scheduling">>, <<"operating system security">>,
       <<"distributed systems">>, <<"system calls">>, <<"threading">> >>

\* questions.js 251-270: each template as the text before and after ${topic}
ServerTemplates(level) ==
    IF level = easy THEN
        << <<"Define and explain ", " with suitable examples.">>,
           <<"List the key characteristics and features of ", ".">>,
           <<"What are the basic components of ", "? Explain briefly.">>,
           <<"Draw a simple diagram to illustrate ", ".">> >>
    ELSE IF level = hard THEN
        << <<"Design and implement a comprehensive solution for ", " addressing complex scenarios.">>,
           <<"Critically evaluate the performance implications of ", " in modern operating systems.">>,
           <<"Develop an optimized algorithm for ", " and justify your design decisions.">>,
           <<"Create a novel approach for ", " to solve real-world system challenges.">> >>
    ELSE
        << <<"Explain the working principle of ", " with detailed examples and applications.">>,
           <<"Analyze the advantages and disadvantages of ", " in operating systems.">>,
           <<"Describe the implementation process of ", " with algorithmic steps.">>,
           <<"Compare and contrast different approaches to ", ".">> >>

\* GenerateQuestions.tsx 262-281
ClientTemplates(level) ==
    IF level = easy THEN
        << <<"Define and explain the concept of ", " with suitable examples.">>,
           <<"List the key features and characteristics of ", ".">>,
           <<"What are the basic components of ", "? Explain briefly.">>,
           <<"Draw a simple diagram to illustrate ", ".">> >>
    ELSE IF level = hard THEN
        << <<"Design and implement a comprehensive solution for ", " addressing complex scenarios.">>,
           <<"Critically evaluate the performance implications of ", " in real-world systems.">>,
           <<"Develop an optimized approach for ", " and justify your design decisions.">>,
           <<"Create a novel algorithm incorporating ", " to solve industry challenges.">> >>
    ELSE
        << <<"Explain the working principle of ", " with detailed examples.">>,
           <<"Analyze the advantages and disadvantages of ", ".">>,
           <<"Describe the implementation process of ", " with algorithmic steps.">>,
           <<"Compare and contrast ", " with other related concepts.">> >>

\* a template with nothing in the place of ${topic}
FillWithNothing(template, topic) == <<template[1], template[2]>>

\* `${before}${topic}${after}`
Fill(template, topic) == <<template[1]>> \o topic \o <<template[2]>>

\* a bloom level that is that of medium for every difficulty
BloomOfMedium(level) == "L3"

\* config.level === 'easy' ? 'L1' : config.level === 'medium' ? 'L3' : 'L5'
BloomOf(level) == IF level = easy THEN "L1" ELSE IF level = medium THEN "L3" ELSE "L5"

\* questions.js 242-286; section = 0 and co = NoCo stand for null; draw is the
\* pair of indices Math.random gives this question
generateAIQuestionForConfig(config, section, co, draw) ==
    LET topic == IF Truthy(config.topic) THEN config.topic
                 ELSE ServerTopics[draw.topic + 1]
        templates == ServerTemplates(config.level)
    IN  [questionId |-> config.questionId,
         text       |-> Fill(templates[draw.template + 1], topic),
         marks      |-> config.marks,
         difficulty |-> config.level,
         bloomLevel |-> BloomOf(config.level),
         unit       |-> IF section # 0 THEN Unit(section) ELSE <<"General">>,
         topic      |-> topic,
         co         |-> co,
         source     |-> "ai_generated",
         originalId |-> NoId,
         similarity |-> NoSimilarity]

\* GenerateQuestions.tsx 261-297
generateAIQuestion(config, section, co, draw) ==
    LET questionTemplates == ClientTemplates(config.level)
    IN  [questionId |-> config.questionId,
         text       |-> Fill(questionTemplates[draw.template + 1], config.topic),
         marks      |-> config.marks,
         difficulty |-> config.level,
         bloomLevel |-> BloomOf(config.level),
         unit       |-> IF section # 0 THEN Unit(section) ELSE <<"General">>,
         topic      |-> config.topic,
         co         |-> co,
         source     |-> "ai_generated",
         originalId |-> NoId,
         similarity |-> NoSimilarity]

\* ---------------------------------------------------------------- assembly
\* a bank match pushed with the marks predicted for the stored question
FromBankWithPredictedMarks(config, selectedQuestion, co) ==
    [questionId |-> config.questionId,
     text       |-> selectedQuestion.question,
     marks      |-> selectedQuestion.predicted_marks,
     difficulty |-> config.level,
     bloomLevel |-> selectedQuestion.bloom_level,
     unit       |-> selectedQuestion.matched_unit,
     topic      |-> selectedQuestion.matched_topic,
     co         |-> co,
     source     |-> "processed_data",
     originalId |-> selectedQuestion._id,
     similarity |-> selectedQuestion.topic_similarity]

\* questions.js 124-135 and 174-186: the question pushed for a bank match
ServerFromBank(config, selectedQuestion, co) ==
    [questionId |-> config.questionId,
     text       |-> selectedQuestion.question,
     marks      |-> config.marks,
     difficulty |-> config.level,
     bloomLevel |-> selectedQuestion.bloom_level,
     unit       |-> selectedQuestion.matched_unit,
     topic      |-> selectedQuestion.matched_topic,
     co         |-> co,
     source     |-> "processed_data",
     originalId |-> selectedQuestion._id,
     similarity |-> selectedQuestion.topic_similarity]

\* GenerateQuestions.tsx 162-173 and 198-210
ClientFromBank(config, selectedQuestion, co) ==
    [questionId |-> config.questionId,
     text       |-> selectedQuestion.question,
     marks      |-> config.marks,
     difficulty |-> config.level,
     bloomLevel |-> selectedQuestion.bloom_level,
     unit       |-> selectedQuestion.matched_unit,
     topic      |-> config.topic,
     co         |-> co,
     source     |-> "processed_data",
     originalId |-> selectedQuestion._id,
     similarity |-> selectedQuestion.topic_similarity]

\* slots of a group without the includeC test
SlotsOfEveryPart(type, configs, group) ==
    IF type = "CIE"
    THEN SelectSeq(configs, LAMBDA q : startsWith(q.questionId, toString(group)))
    ELSE SelectSeq(configs, LAMBDA q : parseInt(q.questionId) = group)

\* the configs one pass of the outer loops works on: those of section `group`
\* (CIE, startsWith) or of question number `group` (SEE, parseInt), c parts
\* only with includeC
SlotsOf(type, configs, group) ==
    IF type = "CIE"
    THEN SelectSeq(configs, LAMBDA q :
             startsWith(q.questionId, toString(group)) /\
             (~endsWith(q.questionId, <<"c">>) \/ q.includeC))
    ELSE SelectSeq(configs, LAMBDA q :
             parseInt(q.questionId) = group /\
             (~endsWith(q.questionId, <<"c">>) \/ q.includeC))

LastGroup(type) == IF type = "CIE" THEN 3 ELSE 10

\* co of question number n: n = (co - 1) * 2 + setIdx with setIdx in 1..2
CoOf(type, group) == IF type = "CIE" THEN NoCo ELSE (group + 1) \div 2

SectionOf(type, group) == IF type = "CIE" THEN group ELSE 0

\* a server loop that falls back unless more than one question matched
ServerFillNeedsTwo(questions, type, config, group, draw) ==
    LET matchingQuestions == ServerMatching(questions, type, config, SectionOf(type, group))
    IN  IF Len(matchingQuestions) > 1
        THEN ServerFromBank(config, matchingQuestions[1], CoOf(type, group))
        ELSE generateAIQuestionForConfig(config, SectionOf(type, group), CoOf(type, group), draw)

\* questions.js 79-141 / 155-192: the question pushed for one config
ServerFill(questions, type, config, group, draw) ==
    LET matchingQuestions == ServerMatching(questions, type, config, SectionOf(type, group))
    IN  IF Len(matchingQuestions) > 0
        THEN ServerFromBank(config, matchingQuestions[1], CoOf(type, group))
        ELSE generateAIQuestionForConfig(config, SectionOf(type, group), CoOf(type, group), draw)

\* a client loop that draws the question it takes among the matches
ClientFillAtRandom(questions, type, config, group, draw) ==
    LET matchingQuestions ==
            findMatchingQuestions(questions, config,
                IF type = "CIE" THEN Unit(group) ELSE EmptyString)
    IN  IF Len(matchingQuestions) > 0
        THEN ClientFromBank(config,
                 matchingQuestions[(draw.template % Len(matchingQuestions)) + 1],
                 CoOf(type, group))
        ELSE generateAIQuestion(config, SectionOf(type, group), CoOf(type, group), draw)

\* GenerateQuestions.tsx 155-178 / 192-214
ClientFill(questions, type, config, group, draw) ==
    LET matchingQuestions ==
            findMatchingQuestions(questions, config,
                IF type = "CIE" THEN Unit(group) ELSE EmptyString)
    IN  IF Len(matchingQuestions) > 0
        THEN ClientFromBank(config, matchingQuestions[1], CoOf(type, group))
        ELSE generateAIQuestion(config, SectionOf(type, group), CoOf(type, group), draw)

\* which of the three assembly loops runs
FillBy(who, questions, type, config, group, draw) ==
    IF who = "client" THEN ClientFill(questions, type, config, group, draw)
    ELSE IF who = "server" THEN ServerFill(questions, type, config, group, draw)
    ELSE generateAIQuestionForConfig(config, SectionOf(type, group), CoOf(type, group), draw)

\* loops that reach the included configs of the template in the order of the
\* request, each with the section / question number its id names
VisitInInputOrder(type, configs, group) ==
    LET groupOf(q) == IF type = "CIE" THEN parseInt(<<q.questionId[1]>>)
                      ELSE parseInt(q.questionId)
        reached == SelectSeq(configs, LAMBDA q :
                       /\ groupOf(q) \in 1..LastGroup(type)
                       /\ (~endsWith(q.questionId, <<"c">>) \/ q.includeC))
    IN  [i \in 1..Len(reached) |-> [config |-> reached[i], group |-> groupOf(reached[i])]]

\* the order in which the loops reach the configs: group after group, each
\* config with the section / question number of the pass that reaches it
RECURSIVE VisitFrom(_, _, _)
VisitFrom(type, configs, group) ==
    IF group > LastGroup(type) THEN <<>>
    ELSE LET slots == SlotsOf(type, configs, group)
         IN  [i \in 1..Len(slots) |-> [config |-> slots[i], group |-> group]]
             \o VisitFrom(type, configs, group + 1)

\* loops that take a question out of the pool once it has filled a slot
RECURSIVE FillRemovingUsed(_, _, _, _, _, _)
FillRemovingUsed(who, questions, type, visits, stream, k) ==
    IF k > Len(visits) THEN <<>>
    ELSE LET out == FillBy(who, questions, type, visits[k].config, visits[k].group, stream[k])
             left == IF out.source = "processed_data"
                     THEN SelectSeq(questions, LAMBDA q : q._id # out.originalId)
                     ELSE questions
         IN  <<out>> \o FillRemovingUsed(who, left, type, visits, stream, k + 1)

AssembleRemovingUsed(who, questions, type, configs, stream) ==
    FillRemovingUsed(who, questions, type, VisitFrom(type, configs, 1), stream, 1)

\* the loops: one question pushed for every config reached, in that order
Assemble(who, questions, type, configs, stream) ==
    LET visits == VisitFrom(type, configs, 1)
    IN  [k \in 1..Len(visits) |->
            FillBy(who, questions, type, visits[k].config, visits[k].group, stream[k])]

\* questions.js 63-199
generateFromProcessedData(questions, type, configs, stream) ==
    Assemble("server", questions, IF type = "CIE" THEN "CIE" ELSE "SEE", configs, stream)

\* questions.js 202-239
generateWithAI(type, configs, stream) ==
    Assemble("ai", <<>>, IF type = "CIE" THEN "CIE" ELSE "SEE", configs, stream)

\* GenerateQuestions.tsx 139-220
generateQuestionsFromProcessedData(questions, type, configs, stream) ==
    Assemble("client", questions, IF type = "CIE" THEN "CIE" ELSE "SEE", configs, stream)

\* ---------------------------------------------------------------- render
\* The paper is the sequence of its lines, the text between two "\n"; a line
\* is the sequence of the pieces the template literals join.
HeavyRule == <<"===">>

LightRule == <<"---">>

BlankLine == <<>>

RECURSIVE Flatten(_)
Flatten(blocks) ==
    IF blocks = <<>> THEN <<>> ELSE Head(blocks) \o Flatten(Tail(blocks))

\* (similarity * 100).toFixed(1) for a similarity held in hundredths
toFixed(similarity) == toString(similarity) \o <<".", "0">>

\* toLocaleDateString() of the moment of the call
Today == <<"11/4/2026">>

Dates == {Today, <<"11/5/2026">>}

\* GenerateQuestions.tsx 369-389
PaperHeader(type, currentDate) ==
    << HeavyRule,
       <<IF type = "CIE" THEN "CONTINUOUS INTERNAL EVALUATION" ELSE "SEMESTER END EXAMINATION">>,
       HeavyRule, BlankLine,
       <<"Course: ", "Operating Systems", " (", "OS", ")">>,
       <<"Semester: ", "5">>,
       <<"Date: ">> \o currentDate,
       <<"Duration: ", IF type = "CIE" THEN "1 Hour 30 Minutes" ELSE "3 Hours">>,
       <<"Maximum Marks: ", IF type = "CIE" THEN "45" ELSE "100">>, BlankLine,
       <<"Instructions:">>,
       <<IF type = "CIE" THEN "Answer all questions from all sections"
         ELSE "Answer any one full question from each module">>,
       <<IF type = "CIE" THEN "Each section carries 15 marks"
         ELSE "Each module carries 20 marks">>,
       <<"All parts of a question should be answered contiguously">>, BlankLine,
       LightRule, BlankLine >>

\* the lines of one question without the line that names the bank
QuestionLinesWithoutSource(number, questionPart, question) ==
    << toString(number) \o toUpperCase(<<questionPart>>) \o <<". ">> \o question.text,
       <<"    [">> \o toString(question.marks) \o <<" Marks | ">> \o question.difficulty
           \o <<" | ", question.bloomLevel, "]">>,
       BlankLine >>

\* GenerateQuestions.tsx 405-410 / 434-439: the lines of one question
QuestionLines(number, questionPart, question) ==
    << toString(number) \o toUpperCase(<<questionPart>>) \o <<". ">> \o question.text,
       <<"    [">> \o toString(question.marks) \o <<" Marks | ">> \o question.difficulty
           \o <<" | ", question.bloomLevel, "]">> >>
    \o (IF question.source = "processed_data"
        THEN << <<"    [Source: Question Bank | Similarity: ">>
                    \o toFixed(question.similarity) \o <<"%]">> >>
        ELSE <<>>)
    \o <<BlankLine>>

\* a section that is printed only when the paper has a question for it
SectionBlockIfAny(section, questions) ==
    LET sectionQuestions ==
            SelectSeq(questions, LAMBDA q : startsWith(q.questionId, toString(section)))
    IN  IF sectionQuestions = <<>> THEN <<>>
        ELSE << <<"SECTION ">> \o toString(section), LightRule, BlankLine >>
             \o Flatten([i \in 1..Len(sectionQuestions) |->
                    QuestionLines(section, sectionQuestions[i].questionId[2],
                                  sectionQuestions[i])])
             \o <<BlankLine>>

\* GenerateQuestions.tsx 395-414
SectionBlock(section, questions) ==
    LET sectionQuestions ==
            SelectSeq(questions, LAMBDA q : startsWith(q.questionId, toString(section)))
    IN  << <<"SECTION ">> \o toString(section), LightRule, BlankLine >>
        \o Flatten([i \in 1..Len(sectionQuestions) |->
               QuestionLines(section, sectionQuestions[i].questionId[2], sectionQuestions[i])])
        \o <<BlankLine>>

\* GenerateQuestions.tsx 423-443
QuestionSetBlock(questionNum, questions) ==
    LET questionSet == SelectSeq(questions, LAMBDA q : parseInt(q.questionId) = questionNum)
    IN  << <<"Question ">> \o toString(questionNum) \o <<":">> >>
        \o Flatten([i \in 1..Len(questionSet) |->
               QuestionLines(questionNum,
                             questionSet[i].questionId[Len(questionSet[i].questionId)],
                             questionSet[i])])
        \o << <<"OR">>, BlankLine >>

\* GenerateQuestions.tsx 419-446
ModuleBlock(co, questions) ==
    << <<"MODULE ">> \o toString(co) \o <<" (Course Outcome ">> \o toString(co) \o <<")">>,
       LightRule, BlankLine >>
    \o QuestionSetBlock((co - 1) * 2 + 1, questions)
    \o QuestionSetBlock((co - 1) * 2 + 2, questions)
    \o <<BlankLine>>

\* GenerateQuestions.tsx 351-454
formatQuestionPaper(type, questions, currentDate) ==
    PaperHeader(type, currentDate)
    \o (IF type = "CIE"
        THEN Flatten([section \in 1..3 |-> SectionBlock(section, questions)])
        ELSE Flatten([co \in 1..5 |-> ModuleBlock(co, questions)]))
    \o << HeavyRule, <<"END OF QUESTION PAPER">>, HeavyRule >>

\* part_003 195-196 / 221-222: the lines of one question on the API page
ApiQuestionLines(number, questionPart, question) ==
    << toString(number) \o toUpperCase(<<questionPart>>) \o <<". ">> \o question.text
           \o <<" [">> \o toString(question.marks) \o <<" Marks]">>,
       <<"    Topic: ">> \o question.topic \o <<" | Difficulty: ">> \o question.difficulty
           \o <<" | Bloom Level: ", question.bloomLevel>>,
       BlankLine >>

\* part_003 159-231: formatQuestionPaper of the page that generates through
\* POST /api/questions/generate
ApiFormatQuestionPaper(type, questions) ==
    << <<IF type = "CIE" THEN "CONTINUOUS INTERNAL EVALUATION" ELSE "SEMESTER END EXAMINATION">>,
       <<"SEMESTER: ", "5">>,
       <<"COURSE: ", "Operating Systems", " (", "OS", ")">>, BlankLine >>
    \o (IF type = "CIE"
        THEN << <<"Answer all questions. Each section carries 15 marks.">>, BlankLine >>
             \o Flatten([section \in 1..3 |->
                    LET sectionQuestions ==
                            SelectSeq(questions, LAMBDA q :
                                startsWith(q.questionId, toString(section)))
                    IN  << <<"SECTION ">> \o toString(section) \o <<":">>, BlankLine >>
                        \o Flatten([i \in 1..Len(sectionQuestions) |->
                               ApiQuestionLines(section, sectionQuestions[i].questionId[2],
                                                sectionQuestions[i])])
                        \o <<BlankLine>>])
        ELSE << <<"Answer one full question from each module. Each module carries 20 marks.">>,
                BlankLine >>
             \o Flatten([n \in 1..10 |->
                    LET questionSet ==
                            SelectSeq(questions, LAMBDA q : parseInt(q.questionId) = n)
                    IN  (IF n % 2 = 1
                         THEN << <<"MODULE ">> \o toString((n + 1) \div 2) \o <<" (CO">>
                                     \o toString((n + 1) \div 2) \o <<"):">>, BlankLine >>
                         ELSE <<>>)
                        \o << <<"Question ">> \o toString(n) \o <<":">> >>
                        \o Flatten([i \in 1..Len(questionSet) |->
                               ApiQuestionLines(n,
                                   questionSet[i].questionId[Len(questionSet[i].questionId)],
                                   questionSet[i])])
                        \o <<BlankLine>>]))

\* ------------------------------------------------------- generation page
\* configurations the educator may have filled in before pressing Generate
CandidateConfigs(type) ==
    { WithEntries(type, [g \in Groups(type) |-> FullEntry(type)]),
      WithEntries(type, [g \in Groups(type) |->
                            IF g = 1 THEN ShortEntry(type) ELSE FullEntry(type)]),
      SetLevel(SetLevel(WithEntries(type, [g \in Groups(type) |-> ShortEntry(type)]),
                        QuestionId(1, "a"), easy),
               QuestionId(2, "b"), hard) }

\* location.state of /generate-questions: only handleSubmit navigates there,
\* so it holds a configuration for which handleSubmit showed no toast
SubmittedConfigs(type) ==
    { c \in CandidateConfigs(type) : SubmitToast(type, c) = NoToast }

\* bodies of POST /api/questions/generate: what the generation page sends, and
\* what any other authenticated client may send
RequestBodies ==
    { [missing |-> FALSE, examType |-> examType, questionConfigs |-> b[1],
       useProcessedData |-> b[2]] :
        b \in { <<examData.questionConfigs, TRUE>>,
                <<examData.questionConfigs, FALSE>>,
                <<initializeQuestionConfigs(examType), TRUE>> } }
    \cup
    { [missing |-> TRUE, examType |-> examType, questionConfigs |-> <<>>,
       useProcessedData |-> TRUE] }

AssembleInit ==
    /\ examType \in {"CIE", "SEE"}
    /\ questionConfigs \in SubmittedConfigs(examType)
    /\ edits = 0
    /\ toast = NoToast
    /\ route = "generate"
    /\ examData = [examType |-> examType, questionConfigs |-> questionConfigs]
    /\ storedQuestions \in Pools
    /\ processedQuestions = <<>>
    /\ request = NoRequest
    /\ generatedQuestions = <<>>
    /\ dataSource = ""
    /\ questionPaperText = <<>>
    /\ processedData = <<>>
    /\ uploads = <<>>
    /\ response = ""

\* GenerateQuestions.tsx 113-137: the pool arrives from GET /upload/processed-data
loadProcessedData ==
    /\ route = "generate"
    /\ examData # NoState
    /\ Len(storedQuestions) > 0
    /\ processedQuestions' = storedQuestions
    /\ UNCHANGED <<setupVars, storedQuestions, request, generatedQuestions, dataSource,
                   questionPaperText, storeVars>>

\* GenerateQuestions.tsx 299-349: the Generate button. A behaviour follows one
\* generation: the handler reads examData and processedQuestions only, so
\* Regenerate starts from the inputs the first press had. The button is
\* pressed today; papers formatted on different days are those of SpecRender
generateQuestionsWithProcessedData ==
    /\ route = "generate"
    /\ examData # NoState
    /\ dataSource = ""
    /\ \E stream \in RandomStreams, currentDate \in {Today} :
          LET questions ==
                  generateQuestionsFromProcessedData(processedQuestions, examData.examType,
                                                     examData.questionConfigs, stream)
          IN  /\ generatedQuestions' = questions
              /\ questionPaperText' =
                     formatQuestionPaper(examData.examType, questions, currentDate)
    /\ request' = [examType |-> examData.examType,
                   questionConfigs |-> examData.questionConfigs,
                   questions |-> processedQuestions]
    /\ dataSource' = "client"
    /\ UNCHANGED <<setupVars, storedQuestions, processedQuestions, storeVars>>

\* questions.js 14-60: router.post('/generate') from a body to its response;
\* the handler keeps nothing between requests. Only a body without examType or
\* without questionConfigs is answered with status 400
Respond(body) ==
    IF body.missing
    THEN /\ generatedQuestions' = <<>>
         /\ request' = NoRequest
         /\ dataSource' = "400"
         /\ UNCHANGED <<setupVars, storedQuestions, processedQuestions, questionPaperText, storeVars>>
    ELSE /\ \E stream \in RandomStreams :
               IF body.useProcessedData /\ Len(storedQuestions) > 0
               THEN /\ generatedQuestions' =
                          generateFromProcessedData(storedQuestions, body.examType,
                                                    body.questionConfigs, stream)
                    /\ dataSource' = "processed_data"
               ELSE /\ generatedQuestions' =
                          generateWithAI(body.examType, body.questionConfigs, stream)
                    /\ dataSource' = "ai_generated"
         /\ request' = [examType |-> body.examType,
                        questionConfigs |-> body.questionConfigs,
                        questions |-> IF body.useProcessedData THEN storedQuestions
                                      ELSE <<>>]
         /\ UNCHANGED <<setupVars, storedQuestions, processedQuestions, questionPaperText, storeVars>>

\* one request of the generation page's session
PostGenerate ==
    /\ dataSource = ""
    /\ \E body \in RequestBodies : Respond(body)

AssembleNext ==
    \/ loadProcessedData
    \/ generateQuestionsWithProcessedData
    \/ PostGenerate

SpecAssemble == AssembleInit /\ [][AssembleNext]_vars

\* ------------------------------------------- requests of any API client
\* POST /api/questions/generate sits behind `auth` only: the body is whatever
\* the authenticated client sends. examType is any string, the configs come
\* in any order and carry any questionId
DirectTypes == {"CIE", "SEE", "MID"}

Reverse(seq) == [i \in 1..Len(seq) |-> seq[Len(seq) + 1 - i]]

\* ids outside the template: no section 4 in a CIE paper, no question 11 and
\* no question without a number in a SEE paper
StrayIds(type) ==
    IF type = "CIE" THEN {<<"4", "a">>}
    ELSE {<<"1", "1", "a">>, <<"x", "a">>}

\* the template the client filled in: a CIE or a SEE one for a known type,
\* either of them for another type
DirectTemplates(type) == IF type \in {"CIE", "SEE"} THEN {type} ELSE {"CIE", "SEE"}

DirectBase(template) ==
    { WithEntries(template, [g \in Groups(template) |-> FullEntry(template)]),
      WithEntries(template, [g \in Groups(template) |->
                                IF g = 1 THEN ShortEntry(template)
                                ELSE FullEntry(template)]) }

DirectConfigsOf(template) ==
    UNION { {base, Reverse(base)} \cup
            { [base EXCEPT ![1].questionId = id] : id \in StrayIds(template) } :
            base \in DirectBase(template) }

DirectConfigs(type) == UNION { DirectConfigsOf(t) : t \in DirectTemplates(type) }

DirectBodies ==
    { [missing |-> m, examType |-> examType, questionConfigs |-> questionConfigs,
       useProcessedData |-> u] : m \in {FALSE}, u \in BOOLEAN }
    \cup
    { [missing |-> TRUE, examType |-> examType, questionConfigs |-> <<>>,
       useProcessedData |-> TRUE] }

DirectInit ==
    /\ examType \in DirectTypes
    /\ questionConfigs \in DirectConfigs(examType)
    /\ edits = 0
    /\ toast = NoToast
    /\ route = "api"
    /\ examData = NoState
    /\ storedQuestions \in Pools
    /\ processedQuestions = <<>>
    /\ request = NoRequest
    /\ generatedQuestions = <<>>
    /\ dataSource = ""
    /\ questionPaperText = <<>>
    /\ processedData = <<>>
    /\ uploads = <<>>
    /\ response = ""

\* questions.js 14-60 for one request of such a client
PostGenerateDirect ==
    /\ route = "api"
    /\ dataSource = ""
    /\ \E body \in DirectBodies : Respond(body)

DirectNext == PostGenerateDirect

SpecDirect == DirectInit /\ [][DirectNext]_vars

\* ------------------------------------------------ ProcessedData store
\* The ProcessedData documents of one (educator, course), in the order of
\* their insertion. _id and uploadedAt are the number of the upload: both are
\* given when the request constructs the document, before save().
NewProcessedData(id, version) ==
    [_id |-> id, version |-> version, processingStatus |-> "PENDING",
     isActive |-> TRUE, uploadedAt |-> id, questions |-> <<>>]

\* the questions the external processing extracts from the files of upload id
Snapshot(id) == << CHOOSE q \in Bank : q._id = id >>

\* updateMany({educator, course, _id: {$ne: id}}, {$set: {isActive: false}})
DeactivateOthers(store, id) ==
    [k \in 1..Len(store) |->
        IF store[k]._id # id THEN [store[k] EXCEPT !.isActive = FALSE] ELSE store[k]]

\* findOne({educator, course}, {}, {sort: {version: -1}}) and the version the
\* hook derives from it
NextVersion(store) ==
    IF Len(store) = 0 THEN 1
    ELSE (CHOOSE v \in {store[k].version : k \in 1..Len(store)} :
              \A k \in 1..Len(store) : store[k].version <= v) + 1

\* findByIdAndUpdate(id, update) on the field processingStatus
WithStatus(store, id, status) ==
    [k \in 1..Len(store) |->
        IF store[k]._id = id THEN [store[k] EXCEPT !.processingStatus = status]
        ELSE store[k]]

\* findByIdAndUpdate(id, {questions, topics, processingStatus: 'COMPLETED', ...})
WithResult(store, id, questions) ==
    [k \in 1..Len(store) |->
        IF store[k]._id = id
        THEN [store[k] EXCEPT !.processingStatus = "COMPLETED", !.questions = questions]
        ELSE store[k]]

\* the documents a filter selects, as positions in the collection
Completed(store) == { k \in 1..Len(store) : store[k].processingStatus = "COMPLETED" }

ActiveCompleted(store) == { k \in Completed(store) : store[k].isActive }

\* findOne(filter) without sort: the first match in the order of insertion;
\* 0 for null
FirstMatch(store, matching) ==
    IF matching = {} THEN 0
    ELSE CHOOSE k \in matching : \A j \in matching : k <= j

\* findOne(filter).sort({uploadedAt: -1}): the match uploaded last; 0 for null
LatestMatch(store, matching) ==
    IF matching = {} THEN 0
    ELSE CHOOSE k \in matching : \A j \in matching : store[j].uploadedAt <= store[k].uploadedAt

\* an upload request at its first await
NewUpload == [pc |-> "updateMany", version |-> 1, delivered |-> FALSE, called |-> FALSE]

StoreInit ==
    /\ examType = "CIE"
    /\ questionConfigs = initializeQuestionConfigs(examType)
    /\ edits = 0
    /\ toast = NoToast
    /\ route = "upload"
    /\ examData = NoState
    /\ storedQuestions = <<>>
    /\ processedQuestions = <<>>
    /\ request = NoRequest
    /\ generatedQuestions = <<>>
    /\ dataSource = ""
    /\ questionPaperText = <<>>
    /\ processedData = <<>>
    /\ uploads = <<>>
    /\ response = ""

\* A behaviour follows the uploads of the course up to the requests that
\* read the store: what a request reads is settled by the store as it is then
Unread == response = "" /\ dataSource = ""

\* what the store actions leave alone
pageVars ==
    <<setupVars, storedQuestions, processedQuestions, request, generatedQuestions,
      dataSource, questionPaperText, response>>

\* part_005 45-91: POST /process-documents up to save(), which enters the
\* pre-save hook and waits for its updateMany
processDocuments ==
    /\ Unread
    /\ Len(uploads) < MaxUploads
    /\ uploads' = Append(uploads, NewUpload)
    /\ UNCHANGED <<processedData, pageVars>>

\* part_007 67-76: the hook's updateMany takes effect
preSaveUpdateMany ==
    \E id \in 1..Len(uploads) :
        /\ Unread
        /\ uploads[id].pc = "updateMany"
        /\ processedData' = DeactivateOthers(processedData, id)
        /\ uploads' = [uploads EXCEPT ![id].pc = "findOne"]
        /\ UNCHANGED pageVars

\* part_007 79-85: the hook's findOne answers and this.version is set
preSaveFindOne ==
    \E id \in 1..Len(uploads) :
        /\ Unread
        /\ uploads[id].pc = "findOne"
        /\ uploads' = [uploads EXCEPT ![id].pc = "insert",
                                      ![id].version = NextVersion(processedData)]
        /\ UNCHANGED <<processedData, pageVars>>

\* part_007 87, part_005 91-95: save() inserts the document, the request
\* calls triggerColabProcessing without awaiting it
saveInsert ==
    \E id \in 1..Len(uploads) :
        /\ Unread
        /\ uploads[id].pc = "insert"
        /\ processedData' = Append(processedData, NewProcessedData(id, uploads[id].version))
        /\ uploads' = [uploads EXCEPT ![id].pc = "trigger"]
        /\ UNCHANGED pageVars

\* part_005 110-117: triggerColabProcessing marks the record PROCESSING
triggerColabProcessing ==
    \E id \in 1..Len(uploads) :
        /\ Unread
        /\ uploads[id].pc = "trigger"
        /\ processedData' = WithStatus(processedData, id, "PROCESSING")
        /\ uploads' = [uploads EXCEPT ![id].pc = "post"]
        /\ UNCHANGED pageVars

\* part_005 119-148: without COLAB_WEBHOOK_URL the record is marked FAILED;
\* with it the payload is posted, and reaches the notebook or not
postToColab ==
    \E id \in 1..Len(uploads), colabWebhookUrl \in BOOLEAN, reached \in BOOLEAN :
        /\ Unread
        /\ uploads[id].pc = "post"
        /\ IF colabWebhookUrl
           THEN /\ uploads' = [uploads EXCEPT ![id].pc = "axios", ![id].delivered = reached]
                /\ UNCHANGED processedData
           ELSE /\ processedData' = WithStatus(processedData, id, "FAILED")
                /\ uploads' = [uploads EXCEPT ![id].pc = "done"]
        /\ UNCHANGED pageVars

\* part_005 142-153: axios.post resolves, or rejects (error status, network
\* error, no answer within 30 s) and control enters the catch
axiosSettles ==
    \E id \in 1..Len(uploads), resolved \in BOOLEAN :
        /\ Unread
        /\ uploads[id].pc = "axios"
        /\ resolved => uploads[id].delivered
        /\ uploads' = [uploads EXCEPT ![id].pc = IF resolved THEN "done" ELSE "catch"]
        /\ UNCHANGED <<processedData, pageVars>>

\* part_005 152-158: the catch marks the record FAILED
triggerFailed ==
    \E id \in 1..Len(uploads) :
        /\ Unread
        /\ uploads[id].pc = "catch"
        /\ processedData' = WithStatus(processedData, id, "FAILED")
        /\ uploads' = [uploads EXCEPT ![id].pc = "done"]
        /\ UNCHANGED pageVars

\* part_005 165-204: POST /processing-complete, sent by the notebook once for
\* a payload it received
processingComplete ==
    \E id \in 1..Len(uploads), status \in {"success", "error"} :
        /\ Unread
        /\ uploads[id].delivered
        /\ ~uploads[id].called
        /\ processedData' =
               IF status = "success" THEN WithResult(processedData, id, Snapshot(id))
               ELSE WithStatus(processedData, id, "FAILED")
        /\ uploads' = [uploads EXCEPT ![id].called = TRUE]
        /\ UNCHANGED pageVars

\* part_005 246-274 and GenerateQuestions.tsx 113-137: the generation page
\* asks for the pool once, when it is opened
getProcessedData ==
    /\ response = ""
    /\ LET found == LatestMatch(processedData, ActiveCompleted(processedData))
       IN  IF found = 0
           THEN /\ response' = "404"
                /\ UNCHANGED processedQuestions
           ELSE /\ response' = "200"
                /\ processedQuestions' = processedData[found].questions
    /\ UNCHANGED <<setupVars, storedQuestions, request, generatedQuestions, dataSource,
                   questionPaperText, processedData, uploads>>

\* questions.js 22-31: POST /generate looks the pool up; the generation that
\* follows on the pool found is PostGenerate. One request is followed
findCompleted ==
    /\ dataSource = ""
    /\ LET found == FirstMatch(processedData, Completed(processedData))
       IN  storedQuestions' = IF found = 0 THEN <<>> ELSE processedData[found].questions
    /\ dataSource' = "ai_generated"
    /\ UNCHANGED <<setupVars, processedQuestions, request, generatedQuestions,
                   questionPaperText, storeVars>>

StoreNext ==
    \/ processDocuments
    \/ preSaveUpdateMany
    \/ preSaveFindOne
    \/ saveInsert
    \/ triggerColabProcessing
    \/ postToColab
    \/ axiosSettles
    \/ triggerFailed
    \/ processingComplete
    \/ getProcessedData
    \/ findCompleted

SpecStore == StoreInit /\ [][StoreNext]_vars

\* ------------------------------------------------- formatting a paper
\* the papers the formatters are given: papers of a generation run, and what
\* is left of them when the questions of some sections (CIE) or modules (SEE)
\* are missing, down to the empty paper
RenderPapers(type) ==
    { generateFromProcessedData(pool, type, configs, stream) :
        pool \in PoolsOfLength(1), configs \in CandidateConfigs(type),
        stream \in RandomStreams }

KeepGroups(type, questions, kept) ==
    SelectSeq(questions, LAMBDA q :
        (IF type = "CIE" THEN parseInt(<<q.questionId[1]>>) ELSE q.co) \in kept)

AssignedLists(type) ==
    { KeepGroups(type, questions, kept) :
        questions \in RenderPapers(type),
        kept \in SUBSET (IF type = "CIE" THEN 1..3 ELSE 1..5) }

RenderInit ==
    /\ examType \in {"CIE", "SEE"}
    /\ questionConfigs = initializeQuestionConfigs(examType)
    /\ edits = 0
    /\ toast = NoToast
    /\ route \in {"generate", "generate-api"}
    /\ examData = NoState
    /\ storedQuestions = <<>>
    /\ processedQuestions = <<>>
    /\ request = NoRequest
    /\ generatedQuestions \in AssignedLists(examType)
    /\ dataSource = ""
    /\ questionPaperText = <<>>
    /\ processedData = <<>>
    /\ uploads = <<>>
    /\ response = ""

\* GenerateQuestions.tsx 328-329: formatQuestionPaper and setQuestionPaperText,
\* at the first press of Generate and at every later one
renderOnPage ==
    /\ route = "generate"
    /\ \E currentDate \in Dates :
          questionPaperText' = formatQuestionPaper(examType, generatedQuestions, currentDate)
    /\ UNCHANGED <<setupVars, storedQuestions, processedQuestions, request,
                   generatedQuestions, dataSource, storeVars>>

\* part_003 141-142: the same on the page that generates through the API
renderOnApiPage ==
    /\ route = "generate-api"
    /\ questionPaperText' = ApiFormatQuestionPaper(examType, generatedQuestions)
    /\ UNCHANGED <<setupVars, storedQuestions, processedQuestions, request,
                   generatedQuestions, dataSource, storeVars>>

RenderNext ==
    \/ renderOnPage
    \/ renderOnApiPage

SpecRender == RenderInit /\ [][RenderNext]_vars

\* ======================================================================
\* Properties
\* ======================================================================
\* the part letter of a slot and whether the slot is included
PartOf(q) == q.questionId[Len(q.questionId)]

IsIncluded(q) == PartOf(q) # "c" \/ q.includeC

\* the three slots of the g-th section / question of the template
GroupSlots(configs, g) == { configs[i] : i \in {3 * g - 2, 3 * g - 1, 3 * g} }

\* marks of the included slots of group g
GroupTotal(configs, g) ==
    LET m(i) == IF IsIncluded(configs[i]) THEN configs[i].marks ELSE 0
    IN  m(3 * g - 2) + m(3 * g - 1) + m(3 * g)

TargetTotal(type) == IF type = "CIE" THEN 15 ELSE 20

TotalsOnTarget(type, configs) ==
    \A g \in Groups(type) : GroupTotal(configs, g) = TargetTotal(type)

TopicsChosen(configs) ==
    \A i \in 1..Len(configs) : IsIncluded(configs[i]) => configs[i].topic # EmptyString

\* C1: handleSubmit raises no marks error iff every section's (CIE) or
\* question's (SEE) included slots sum to exactly 15 resp. 20 marks.
C1_MarksAcceptedIffTotals ==
    [][handleSubmit =>
        ((toast'.title # "Invalid marks distribution")
            <=> TotalsOnTarget(examType, questionConfigs))]_vars

\* C1 witness: a submitted page was let through although an excluded part c
\* carries marks that would have broken the total.
C1_Witness ==
    /\ route = "generate"
    /\ \E i \in 1..Len(examData.questionConfigs) :
          /\ ~IsIncluded(examData.questionConfigs[i])
          /\ examData.questionConfigs[i].marks > 0

\* C4: with valid mark totals handleSubmit navigates iff every included slot
\* has a topic, it shows the missing-topic toast otherwise, and a missing topic
\* on an included slot always stops the navigation; the topic of an excluded
\* part c plays no role.
C4_TopicsRequiredOfIncluded ==
    [][handleSubmit =>
        /\ ~TopicsChosen(questionConfigs) => route' = "setup"
        /\ TotalsOnTarget(examType, questionConfigs) =>
              /\ (route' = "generate") <=> TopicsChosen(questionConfigs)
              /\ (toast' = TopicToast) <=> ~TopicsChosen(questionConfigs)]_vars

\* C4 witness: the missing-topic toast is up for a page whose totals are valid
\* and whose only empty topics sit on included slots.
C4_Witness ==
    /\ toast = TopicToast
    /\ route = "setup"
    /\ TotalsOnTarget(examType, questionConfigs)
    /\ ~TopicsChosen(questionConfigs)

\* C5: a marks failure names the first section / question (in template order)
\* whose included marks miss the target, together with that group's total.
C5_MarksErrorNamesFirstGroup ==
    [][handleSubmit /\ ~TotalsOnTarget(examType, questionConfigs) =>
        LET first == CHOOSE g \in Groups(examType) :
                         /\ GroupTotal(questionConfigs, g) # TargetTotal(examType)
                         /\ \A h \in Groups(examType) :
                               h < g => GroupTotal(questionConfigs, h) = TargetTotal(examType)
        IN  /\ toast'.title = "Invalid marks distribution"
            /\ toast'.label = (IF examType = "CIE" THEN "Section" ELSE "Question")
            /\ toast'.group = first
            /\ toast'.total = GroupTotal(questionConfigs, first)]_vars

\* C5 witness: section 1 with 1a = 5, 1b = 6, 1c = 5 and 1c included is
\* reported as section 1 with total 16 while a later section is wrong too.
C5_Witness ==
    /\ examType = "CIE"
    /\ toast = MarksToast("Section", 1, NoCo, 16)
    /\ questionConfigs[1].marks = 5 /\ questionConfigs[2].marks = 6
    /\ questionConfigs[3].marks = 5 /\ questionConfigs[3].includeC
    /\ \E g \in {2, 3} : GroupTotal(questionConfigs, g) # 15

\* ----------------------------------------------------- generation runs
\* a generation run has produced the paper in generatedQuestions
IsRun == dataSource \in {"client", "processed_data", "ai_generated"}

\* the loop that ran: the client's, the server's bank loop, or generateWithAI
RunBy ==
    IF dataSource = "client" THEN "client"
    ELSE IF dataSource = "processed_data" THEN "server" ELSE "ai"

\* position of the slot with this id in the request, and its template group
IndexOfId(id) ==
    CHOOSE i \in 1..Len(request.questionConfigs) : request.questionConfigs[i].questionId = id

GroupOfIndex(i) == ((i - 1) \div 3) + 1

IncludedIndices ==
    { i \in 1..Len(request.questionConfigs) : IsIncluded(request.questionConfigs[i]) }

\* the outputs of the run for the slot at position i of the request
OutputsOf(i) ==
    { k \in 1..Len(generatedQuestions) :
        generatedQuestions[k].questionId = request.questionConfigs[i].questionId }

\* the Matcher of the loop that ran, for the slot at position i: does the
\* pool entry pass its filter, and the ranked list it returns
PassesAt(i, q) ==
    LET config == request.questionConfigs[i]
    IN  IF RunBy = "client" THEN ClientFilter(q, config)
        ELSE IF RunBy = "server"
             THEN IF request.examType = "CIE"
                  THEN ServerCieFilter(q, config, GroupOfIndex(i))
                  ELSE ServerSeeFilter(q, config)
             ELSE FALSE

RankedAt(i) ==
    LET config == request.questionConfigs[i]
    IN  IF RunBy = "client"
        THEN findMatchingQuestions(request.questions, config,
                 IF request.examType = "CIE" THEN Unit(GroupOfIndex(i)) ELSE EmptyString)
        ELSE IF RunBy = "server"
             THEN ServerMatching(request.questions, request.examType, config,
                                 SectionOf(request.examType, GroupOfIndex(i)))
             ELSE <<>>

PoolIndexOf(id) ==
    CHOOSE j \in 1..Len(request.questions) : request.questions[j]._id = id

\* C2: a run returns exactly one question for every included slot and none
\* for an excluded one, whatever the pool holds.
C2_OnePerIncludedSlot ==
    IsRun =>
        /\ \A i \in 1..Len(request.questionConfigs) :
              Cardinality(OutputsOf(i)) = (IF i \in IncludedIndices THEN 1 ELSE 0)
        /\ Len(generatedQuestions) = Cardinality(IncludedIndices)

\* C2 witness: a run over an empty pool of a request with an excluded part c
\* returned its questions.
C2_Witness ==
    /\ IsRun
    /\ request.questions = <<>>
    /\ Len(generatedQuestions) > 0
    /\ \E i \in 1..Len(request.questionConfigs) : i \notin IncludedIndices

\* C3: a slot is filled from the bank, with the first entry of the ranked
\* list, iff some pool entry passes the filter for it; otherwise it is filled
\* by the fallback generator; over an empty pool every question is generated.
C3_FromBankIffMatch ==
    IsRun =>
        \A i \in IncludedIndices : \A k \in OutputsOf(i) :
            LET out == generatedQuestions[k]
                matched == \E j \in 1..Len(request.questions) :
                               PassesAt(i, request.questions[j])
            IN  /\ out.source \in {"processed_data", "ai_generated"}
                /\ (out.source = "processed_data") <=> matched
                /\ out.source = "processed_data" =>
                      /\ out.originalId = RankedAt(i)[1]._id
                      /\ out.text = RankedAt(i)[1].question
                      /\ out.similarity = RankedAt(i)[1].topic_similarity
                /\ out.source = "ai_generated" =>
                      /\ out.originalId = NoId
                      /\ out.similarity = NoSimilarity

\* C3 witness: one paper holds a bank question and a generated question, from
\* a pool of two.
C3_Witness ==
    /\ IsRun
    /\ Len(request.questions) = 2
    /\ \E k \in 1..Len(generatedQuestions) : generatedQuestions[k].source = "processed_data"
    /\ \E k \in 1..Len(generatedQuestions) : generatedQuestions[k].source = "ai_generated"

\* C6: a paper is only ever assembled from a configuration that satisfies the
\* mark-total and topic checks of handleSubmit.
C6_AssemblyOnlyFromValidated ==
    IsRun =>
        /\ TotalsOnTarget(request.examType, request.questionConfigs)
        /\ TopicsChosen(request.questionConfigs)

\* C7: a bank question given to a slot with a topic comes from a pool entry
\* whose matched_topic contains that topic, ignoring case.
C7_FromBankTopicContained ==
    IsRun =>
        \A i \in IncludedIndices : \A k \in OutputsOf(i) :
            LET out == generatedQuestions[k]
                config == request.questionConfigs[i]
            IN  out.source = "processed_data" /\ config.topic # EmptyString =>
                    includes(toLowerCase(request.questions[PoolIndexOf(out.originalId)].matched_topic),
                             toLowerCase(config.topic))

\* the tolerance the claim gives each exam type
ClaimedTolerance(type) == IF type = "CIE" THEN 2 ELSE 3

\* C8: a bank question comes from a pool entry of the slot's difficulty
\* (ignoring case) whose predicted marks are within 2 (CIE) or 3 (SEE) of the
\* slot's marks, and every pool entry within that tolerance that matches the
\* difficulty and the topic is in the ranked list.
C8_WithinTolerance ==
    IsRun /\ RunBy # "ai" =>
        \A i \in IncludedIndices :
            LET config == request.questionConfigs[i]
                fits(q) == /\ toLowerCase(q.difficulty) = toLowerCase(config.level)
                           /\ Abs(q.predicted_marks - config.marks)
                                  <= ClaimedTolerance(request.examType)
                topical(q) == config.topic = EmptyString \/
                              includes(toLowerCase(q.matched_topic), toLowerCase(config.topic))
            IN  /\ \A k \in OutputsOf(i) :
                      generatedQuestions[k].source = "processed_data" =>
                          fits(request.questions[PoolIndexOf(generatedQuestions[k].originalId)])
                /\ \A j \in 1..Len(request.questions) :
                      fits(request.questions[j]) /\ topical(request.questions[j]) =>
                          \E r \in 1..Len(RankedAt(i)) :
                              RankedAt(i)[r]._id = request.questions[j]._id

\* the score the claim gives a pool entry for the slot at position i
ClaimedScore(i, q) ==
    LET config == request.questionConfigs[i]
    IN  q.topic_similarity
        + (IF q.predicted_marks = config.marks THEN 50 ELSE 0)
        + (IF request.examType = "CIE" /\ includes(q.matched_unit, Unit(GroupOfIndex(i)))
           THEN 25 ELSE 0)

\* C9: the bank question of a slot is the passing pool entry of maximal score
\* similarity*100 + 50 (exact marks) + 25 (unit hint, CIE only), the earliest
\* in pool order among those of equal score.
C9_SelectedHasMaximalScore ==
    IsRun =>
        \A i \in IncludedIndices : \A k \in OutputsOf(i) :
            generatedQuestions[k].source = "processed_data" =>
                LET s == PoolIndexOf(generatedQuestions[k].originalId)
                IN  \A j \in 1..Len(request.questions) :
                        PassesAt(i, request.questions[j]) =>
                            \/ ClaimedScore(i, request.questions[j])
                                  < ClaimedScore(i, request.questions[s])
                            \/ /\ ClaimedScore(i, request.questions[j])
                                     = ClaimedScore(i, request.questions[s])
                               /\ s <= j

\* C10: of two passing pool entries that agree on difficulty, predicted marks,
\* matched topic and matched unit, the one with the higher topic similarity
\* stands no lower in the ranked list.
C10_MatcherMonotone ==
    IsRun =>
        \A i \in IncludedIndices :
            LET ranked == RankedAt(i)
            IN  \A a, b \in 1..Len(ranked) :
                    /\ ranked[a].difficulty = ranked[b].difficulty
                    /\ ranked[a].predicted_marks = ranked[b].predicted_marks
                    /\ ranked[a].matched_topic = ranked[b].matched_topic
                    /\ ranked[a].matched_unit = ranked[b].matched_unit
                    /\ ranked[a].topic_similarity > ranked[b].topic_similarity
                    => a < b

\* C10 witness: the pool holds question 1 before question 3, which differs
\* from it only by a higher similarity, and a slot was given question 3.
C10_Witness ==
    /\ IsRun
    /\ Len(request.questions) = 2
    /\ request.questions[1]._id = 1
    /\ request.questions[2]._id = 3
    /\ \E k \in 1..Len(generatedQuestions) : generatedQuestions[k].originalId = 3

\* a response that carries a paper
Answered == dataSource \in {"client", "processed_data", "ai_generated"}

\* C12: a generation request whose examType is neither CIE nor SEE is answered
\* with an error and never with a paper assembled as if the type were known.
C12_UnknownExamTypeFails ==
    (dataSource # "" /\ request.examType \notin {"CIE", "SEE"})
        => (~Answered /\ generatedQuestions = <<>>)

\* the slot id fits the template of the exam type: a section 1..3 in front
\* (CIE), a question number 1..10 in front (SEE)
FitsPattern(type, questionId) ==
    IF type = "CIE"
    THEN Len(questionId) > 0 /\ questionId[1] \in {"1", "2", "3"}
    ELSE parseInt(questionId) \in 1..10

\* C13: a paper is never returned with an included slot left out because its
\* id does not fit the template of the exam type: the request fails, or the
\* slot is in the answer.
C13_StraySlotNeverDropped ==
    (Answered /\ request.examType \in {"CIE", "SEE"}) =>
        \A i \in 1..Len(request.questionConfigs) :
            LET q == request.questionConfigs[i]
            IN  (IsIncluded(q) /\ ~FitsPattern(request.examType, q.questionId))
                    => \E k \in 1..Len(generatedQuestions) :
                          generatedQuestions[k].questionId = q.questionId

\* C14: within one generation run no candidate of the pool fills two slots:
\* the questions taken from the bank carry pairwise different originalIds.
C14_CandidateUsedOnce ==
    \A k, l \in 1..Len(generatedQuestions) :
        (/\ k # l
         /\ generatedQuestions[k].source = "processed_data"
         /\ generatedQuestions[l].source = "processed_data")
            => generatedQuestions[k].originalId # generatedQuestions[l].originalId

\* the pools the claim allows: the questions of a COMPLETED version that no
\* COMPLETED version exceeds, the empty pool only when no version is COMPLETED
EligiblePools(store) ==
    LET completed == { k \in 1..Len(store) : store[k].processingStatus = "COMPLETED" }
    IN  IF completed = {} THEN {<<>>}
        ELSE { store[k].questions :
                 k \in { c \in completed :
                            \A d \in completed : store[d].version <= store[c].version } }

\* C15: whichever endpoint looks the pool up, it hands over the snapshot of
\* the most recent COMPLETED version of the course, and none only when the
\* course has no COMPLETED version.
C15_PoolIsLatestCompleted ==
    [][/\ getProcessedData =>
            /\ processedQuestions' \in EligiblePools(processedData)
            /\ response' = "404" => EligiblePools(processedData) = {<<>>}
       /\ findCompleted => storedQuestions' \in EligiblePools(processedData)]_vars

\* the questions of the run that the fallback generator wrote
GeneratedIndices ==
    { k \in 1..Len(generatedQuestions) : generatedQuestions[k].source = "ai_generated" }

\* the slot a question of the run was produced for
SlotOf(k) == request.questionConfigs[IndexOfId(generatedQuestions[k].questionId)]

\* the template list of the generator that ran, for a difficulty tier
TemplatesOfRun(level) ==
    IF RunBy = "client" THEN ClientTemplates(level) ELSE ServerTemplates(level)

\* the text is a template of the tier with something in the place of ${topic}
IsInstanceOfTier(text, level) ==
    /\ Len(text) >= 2
    /\ \E n \in 1..Len(TemplatesOfRun(level)) :
          /\ text[1] = TemplatesOfRun(level)[n][1]
          /\ text[Len(text)] = TemplatesOfRun(level)[n][2]

\* easy -> L1, medium -> L3, hard -> L5
ClaimedBloom(level) ==
    IF level = easy THEN "L1" ELSE IF level = medium THEN "L3"
    ELSE IF level = hard THEN "L5" ELSE "none"

\* C16: a generated question has bloom level L1 / L3 / L5 for an easy /
\* medium / hard slot, and its text is an instance of a template of that very
\* tier and of no other.
C16_BloomAndTemplateTierAgree ==
    IsRun =>
        \A k \in GeneratedIndices :
            /\ generatedQuestions[k].bloomLevel = ClaimedBloom(SlotOf(k).level)
            /\ \A level \in {easy, medium, hard} :
                  IsInstanceOfTier(generatedQuestions[k].text, level)
                      <=> (level = SlotOf(k).level)

\* C16 witness: one paper holds generated questions of all three tiers.
C16_Witness ==
    /\ IsRun
    /\ \A level \in {easy, medium, hard} :
          \E k \in GeneratedIndices :
              /\ SlotOf(k).level = level
              /\ generatedQuestions[k].bloomLevel = ClaimedBloom(level)

\* C17: the text of a generated question contains the slot's topic when the
\* slot has one and a topic of the default list otherwise; what stands in the
\* place of the template's topic is never empty.
C17_GeneratedTextNamesTopic ==
    IsRun =>
        \A k \in GeneratedIndices :
            LET text == generatedQuestions[k].text
            IN  /\ Len(text) > 2
                /\ generatedQuestions[k].topic # EmptyString
                /\ IF SlotOf(k).topic # EmptyString
                   THEN includes(text, SlotOf(k).topic)
                   ELSE \E n \in 1..Len(ServerTopics) : includes(text, ServerTopics[n])

\* C17 witness: a paper with a generated question for a slot without topic,
\* written around a topic of the default list.
C17_Witness ==
    /\ IsRun
    /\ \E k \in GeneratedIndices :
          /\ SlotOf(k).topic = EmptyString
          /\ \E n \in 1..Len(ServerTopics) :
                /\ generatedQuestions[k].topic = ServerTopics[n]
                /\ includes(generatedQuestions[k].text, ServerTopics[n])

\* the section (CIE) or question number (SEE) in front of a question's id
GroupOfOutput(k) ==
    IF request.examType = "CIE"
    THEN parseInt(<<generatedQuestions[k].questionId[1]>>)
    ELSE parseInt(generatedQuestions[k].questionId)

\* C18: the paper lists the questions by section 1, 2, 3 (CIE) or by question
\* number 1..10 (SEE), that is by course outcome and alternative; within a
\* section or question number the slots keep the order of the request; a SEE
\* question carries the course outcome ceil(questionNumber / 2).
C18_TemplateOrder ==
    (Answered /\ request.examType \in {"CIE", "SEE"}) =>
        /\ \A k, l \in 1..Len(generatedQuestions) :
              k < l =>
                  \/ GroupOfOutput(k) < GroupOfOutput(l)
                  \/ /\ GroupOfOutput(k) = GroupOfOutput(l)
                     /\ IndexOfId(generatedQuestions[k].questionId)
                            < IndexOfId(generatedQuestions[l].questionId)
        /\ request.examType = "SEE" =>
              \A k \in 1..Len(generatedQuestions) :
                  \E alternative \in 1..2 :
                      GroupOfOutput(k) = (generatedQuestions[k].co - 1) * 2 + alternative

\* C18 witness: a SEE request that lists its slots from 10c down to 1a is
\* answered with a paper that runs from course outcome 1 to course outcome 5.
C18_Witness ==
    /\ Answered
    /\ request.examType = "SEE"
    /\ request.questionConfigs[1].questionId = QuestionId(10, "c")
    /\ Len(generatedQuestions) >= 20
    /\ generatedQuestions[1].co = 1
    /\ generatedQuestions[Len(generatedQuestions)].co = 5

\* ------------------------------------------------------- rendered papers
\* the lines that open the block of section / module n
BlockHeaders(n) ==
    LET opening == <<IF examType = "CIE" THEN "SECTION " ELSE "MODULE ">> \o toString(n)
    IN  { p \in 1..Len(questionPaperText) : startsWith(questionPaperText[p], opening) }

AllBlockHeaders ==
    { p \in 1..Len(questionPaperText) :
        /\ questionPaperText[p] # <<>>
        /\ questionPaperText[p][1] = (IF examType = "CIE" THEN "SECTION " ELSE "MODULE ") }

LastBlock == IF examType = "CIE" THEN 3 ELSE 5

\* the lines that carry the label and the text of a question
LinesOf(q) ==
    LET labelled == toUpperCase(q.questionId) \o <<". ">> \o q.text
    IN  { p \in 1..Len(questionPaperText) : startsWith(questionPaperText[p], labelled) }

\* the block a question belongs to: its section, or its course outcome
BlockOfQuestion(q) ==
    IF examType = "CIE" THEN parseInt(<<q.questionId[1]>>)
    ELSE (parseInt(q.questionId) + 1) \div 2

\* line p lies in block n: after its header and before the next block's
InBlock(p, n, headers) ==
    /\ \E h \in headers[n] : h < p
    /\ \A m \in (n + 1)..LastBlock : \A h \in headers[m] : p < h

\* C19: whatever the assigned list holds, the rendered paper has the headers
\* SECTION 1, 2, 3 (CIE) or MODULE 1..5 (SEE) once each and in that order, and
\* the line of every assigned question exactly once, in the block of its
\* section / course outcome.
C19_RenderBlocks ==
    questionPaperText # <<>> =>
        LET headers == [n \in 1..LastBlock |-> BlockHeaders(n)]
        IN  /\ Cardinality(AllBlockHeaders) = LastBlock
            /\ \A n \in 1..LastBlock : Cardinality(headers[n]) = 1
            /\ \A n \in 1..(LastBlock - 1) :
                  \A h \in headers[n], g \in headers[n + 1] : h < g
            /\ \A k \in 1..Len(generatedQuestions) :
                  LET lines == LinesOf(generatedQuestions[k])
                  IN  /\ Cardinality(lines) = 1
                      /\ \A p \in lines :
                            InBlock(p, BlockOfQuestion(generatedQuestions[k]), headers)

\* C19 witness: a paper rendered from a list that has questions for some but
\* not all of its sections / modules.
C19_Witness ==
    /\ questionPaperText # <<>>
    /\ generatedQuestions # <<>>
    /\ \E n \in 1..LastBlock :
          \A k \in 1..Len(generatedQuestions) : BlockOfQuestion(generatedQuestions[k]) # n
    /\ Cardinality(AllBlockHeaders) = LastBlock

\* the lines that read OR, and the line that opens question n
OrLines == { p \in 1..Len(questionPaperText) : questionPaperText[p] = <<"OR">> }

QuestionHeaders(n) ==
    { p \in 1..Len(questionPaperText) :
        questionPaperText[p] = <<"Question ">> \o toString(n) \o <<":">> }

\* C20: a rendered SEE paper has five OR lines, one per module, each between
\* the questions of alternative 2k-1 and the line that opens alternative 2k.
C20_OneOrPerModule ==
    (questionPaperText # <<>> /\ examType = "SEE") =>
        /\ Cardinality(OrLines) = 5
        /\ \A k \in 1..5 :
              \E p \in OrLines :
                  /\ \A h \in QuestionHeaders(2 * k - 1) : h < p
                  /\ \A h \in QuestionHeaders(2 * k) : p < h
                  /\ \A q \in 1..Len(generatedQuestions) :
                        \A l \in LinesOf(generatedQuestions[q]) :
                            /\ parseInt(generatedQuestions[q].questionId) = 2 * k - 1 => l < p
                            /\ parseInt(generatedQuestions[q].questionId) = 2 * k => p < l

\* C21: formatting is a function of its arguments: formatting the same exam
\* type, course, semester and assigned list again gives the text it gave
\* before, whenever the call is made.
C21_RenderIsPure ==
    [][(renderOnPage /\ questionPaperText # <<>>)
          => questionPaperText' = questionPaperText]_vars

\* C22: a step that runs a generation (it sets dataSource) leaves the pool as
\* it was handed over, and the run matches every slot
\* against that whole pool: a slot gets the head of the list the Matcher
\* ranks from all candidates, whatever earlier slots were given.
C22_PoolUnchanged ==
    /\ [][(dataSource = "" /\ dataSource' # "") =>
              /\ processedQuestions' = processedQuestions
              /\ storedQuestions' = storedQuestions
              /\ request'.questions \in {<<>>, processedQuestions, storedQuestions}]_vars
    /\ []((IsRun /\ RunBy # "ai") =>
              \A i \in IncludedIndices : \A k \in OutputsOf(i) :
                  LET ranked == RankedAt(i)
                  IN  IF ranked = <<>>
                      THEN generatedQuestions[k].source = "ai_generated"
                      ELSE generatedQuestions[k].originalId = ranked[1]._id)

\* C22 witness: a run over a pool of two in which a later slot was given the
\* candidate an earlier slot had been given.
C22_Witness ==
    /\ IsRun
    /\ Len(request.questions) = 2
    /\ \E k, l \in 1..Len(generatedQuestions) :
          /\ k < l
          /\ generatedQuestions[k].source = "processed_data"
          /\ generatedQuestions[l].source = "processed_data"
          /\ generatedQuestions[k].originalId = generatedQuestions[l].originalId

\* C23: every question of a run, from the bank or generated, carries the id,
\* the marks, the difficulty and the topic of its slot as the request gave
\* them.
C23_SlotFieldsCarried ==
    IsRun =>
        \A i \in IncludedIndices : \A k \in OutputsOf(i) :
            /\ generatedQuestions[k].questionId = request.questionConfigs[i].questionId
            /\ generatedQuestions[k].marks = request.questionConfigs[i].marks
            /\ generatedQuestions[k].difficulty = request.questionConfigs[i].level
            /\ generatedQuestions[k].topic = request.questionConfigs[i].topic

\* the same request and pool run again by the loop that ran, with the random
\* numbers of `stream`
Rerun(stream) ==
    IF RunBy = "client"
    THEN generateQuestionsFromProcessedData(request.questions, request.examType,
                                            request.questionConfigs, stream)
    ELSE IF RunBy = "server"
    THEN generateFromProcessedData(request.questions, request.examType,
                                   request.questionConfigs, stream)
    ELSE generateWithAI(request.examType, request.questionConfigs, stream)

\* the random numbers of the second run: the stream that does not always
\* draw index 0
SecondStream == CHOOSE stream \in RandomStreams : stream[1].template # 0

\* C24: a second run over the same exam type, configs and pool, with other
\* random numbers (or, for a first run that drew them, the same), has the
\* same slots with the same sources, and the same text, bloom level,
\* originalId and similarity for every question taken from the bank; only
\* generated questions may differ.
C24_RunsAgreeOnBank ==
    IsRun =>
        LET again == Rerun(SecondStream)
        IN  /\ Len(again) = Len(generatedQuestions)
            /\ \A k \in 1..Len(again) :
                   /\ again[k].questionId = generatedQuestions[k].questionId
                   /\ again[k].source = generatedQuestions[k].source
                   /\ again[k].source = "processed_data" =>
                          /\ again[k].text = generatedQuestions[k].text
                          /\ again[k].bloomLevel = generatedQuestions[k].bloomLevel
                          /\ again[k].originalId = generatedQuestions[k].originalId
                          /\ again[k].similarity = generatedQuestions[k].similarity

\* a run with bank and generated questions that the second run does not repeat
C24_Witness ==
    /\ IsRun
    /\ \E k \in 1..Len(generatedQuestions) : generatedQuestions[k].source = "processed_data"
    /\ \E k \in 1..Len(generatedQuestions) : generatedQuestions[k].source = "ai_generated"
    /\ Rerun(SecondStream) # generatedQuestions

\* the lines that name the question bank as the source of a question
SourceLines ==
    { p \in 1..Len(questionPaperText) :
        startsWith(questionPaperText[p], <<"    [Source: Question Bank | Similarity: ">>) }

C26_DefaultsOnTarget ==
    (edits = 0 /\ questionConfigs = initializeQuestionConfigs(examType))
        => TotalsOnTarget(examType, questionConfigs)

\* marks of the questions of the run that belong to section / question g
RECURSIVE MarksFrom(_, _)
MarksFrom(k, g) ==
    IF k > Len(generatedQuestions) THEN 0
    ELSE (IF (IF request.examType = "CIE"
              THEN parseInt(<<generatedQuestions[k].questionId[1]>>)
              ELSE parseInt(generatedQuestions[k].questionId)) = g
          THEN generatedQuestions[k].marks ELSE 0)
         + MarksFrom(k + 1, g)

\* C27: a run over a configuration that handleSubmit accepts, with any pool,
\* gives questions whose marks total 15 in every CIE section, 45 over the CIE
\* paper, the number its "Maximum Marks" line prints, and 20 in every SEE
\* question, whatever the source of each question.
C27_AssignedMarksOnTarget ==
    (IsRun /\ TotalsOnTarget(request.examType, request.questionConfigs)) =>
        LET total == [g \in Groups(request.examType) |-> MarksFrom(1, g)]
        IN  /\ \A g \in Groups(request.examType) : total[g] = TargetTotal(request.examType)
            /\ request.examType = "CIE" =>
                   /\ total[1] + total[2] + total[3] = 45
                   /\ questionPaperText # <<>> =>
                          \E p \in 1..Len(questionPaperText) :
                              questionPaperText[p] = <<"Maximum Marks: ", "45">>

\* an accepted configuration with a slot filled from the bank by a question
\* predicted to be worth other marks than the slot's, next to a generated one
C27_Witness ==
    /\ IsRun
    /\ TotalsOnTarget(request.examType, request.questionConfigs)
    /\ \E k \in 1..Len(generatedQuestions), i \in 1..Len(request.questions) :
          /\ generatedQuestions[k].source = "processed_data"
          /\ generatedQuestions[k].originalId = request.questions[i]._id
          /\ generatedQuestions[k].marks # request.questions[i].predicted_marks
    /\ \E k \in 1..Len(generatedQuestions) : generatedQuestions[k].source = "ai_generated"

\* C28: every included slot of a configuration that handleSubmit passes on
\* to the generation page has marks of at least 1.
C28_AcceptedMarksPositive ==
    examData # NoState =>
        \A i \in 1..Len(examData.questionConfigs) :
            IsIncluded(examData.questionConfigs[i]) => examData.questionConfigs[i].marks >= 1

\* C29: in every step the processingStatus of a record stays, or moves from
\* PENDING to PROCESSING, or from PROCESSING to COMPLETED or FAILED; and a
\* record that holds questions stored by a success callback is not FAILED.
C29_StatusMovesForward ==
    /\ [][\A k \in 1..Len(processedData) :
             \/ processedData'[k].processingStatus = processedData[k].processingStatus
             \/ /\ processedData[k].processingStatus = "PENDING"
                /\ processedData'[k].processingStatus = "PROCESSING"
             \/ /\ processedData[k].processingStatus = "PROCESSING"
                /\ processedData'[k].processingStatus \in {"COMPLETED", "FAILED"}]_vars
    /\ [](\A k \in 1..Len(processedData) :
             processedData[k].questions # <<>> => processedData[k].processingStatus # "FAILED")

\* C30: once every save of the course has inserted its record, at most one
\* record is active, it has the highest version, and no two records have
\* the same version.
C30_OneActiveLatestVersion ==
    (\A id \in 1..Len(uploads) : uploads[id].pc \notin {"updateMany", "findOne", "insert"}) =>
        /\ \A j, k \in 1..Len(processedData) :
               j # k => processedData[j].version # processedData[k].version
        /\ \A j, k \in 1..Len(processedData) :
               (processedData[j].isActive /\ processedData[k].isActive) => j = k
        /\ \A j, k \in 1..Len(processedData) :
               processedData[j].isActive => processedData[k].version <= processedData[j].version
====
